---- MODULE Spec2Model ----
(***************************************************************************)
(* idt-frontend as a state machine: the chat page (the useMessages polling *)
(* hook and the ChatPage component with its auto-scroll policy and message *)
(* send flow), the registration survey (SurveyPage) and the invitation     *)
(* client (addInvite, deleteInvite).  One action per handler / callback;   *)
(* the React effects that a handler's state updates trigger are part of    *)
(* that handler's action.                                                  *)
(***************************************************************************)
EXTENDS Integers, Sequences, FiniteSets, TLC

\* ---- bounds of the model ------------------------------------------------
MaxMsgId == 2       \* number of messages the server ever stores
MaxInflight == 2    \* fetch requests outstanding at the same time
MaxReload == 2      \* largest value of reloadCounter
MaxPosts == 2       \* message POSTs outstanding at the same time
MaxCalls == 2       \* calls of the invitation client

\* ---- values ---------------------------------------------------------------
Null == "null"                  \* the value null of error
NullMessages == <<[id |-> -1, chat |-> "null"]>>   \* the value null of messages
NoChat == "undefined"           \* router.query.chatId before the route is ready
Chats == {"c1", "c2"}
Errors == {"HTTPError401", "HTTPError500"}   \* what a failed request rejects with
Dists == {0, 63, 64}        \* maxScrollTop - scrollTop
Drafts == {<<>>, <<" ">>, <<"a">>}
Keys == {"Enter", "a"}
AutoScrollThreshold == 64

VARIABLES
  mounted,                    \* the ChatPage component is mounted
  chatId,                     \* router.query.chatId
  isLoading, error, reloadCounter, messages,      \* useMessages state
  requests,                   \* GET chats/{chatId}/messages in flight, in issue order
  serverLog,                  \* serverLog[i] = chat of the message with id i
  composingMessage, firstScroll, autoScroll,
  lastAutoScrolledMessageId, isSendingMessage,    \* ChatPage state
  posts,                      \* POST chats/{chatId}/messages in flight
  dist,                       \* scrollEl: maxScrollTop - scrollTop
  scrollPending,              \* a scroll event is queued (pos not yet updated)
  redirected,                 \* router.replace('/match/chats') was called
  autoScrolls,                \* history: scrolls of the auto-scroll effect, per newest id
  disabledScrolls,            \* history: scrolls of the auto-scroll effect with autoScroll false
  firstScrolls,               \* history: scrolls of the first-load effect, per chat shown
  everCommitted,              \* history: some fetch result was committed
  lastDone,                   \* history: how the fetch request that completed last ended
  rejectedSend,               \* history: send() returned at its guard while the POST
                              \* now in flight was outstanding
  sendFailed,                 \* history: the POST that resolved last rejected and no
                              \* POST was issued since
  qnum, privacyCheck,         \* SurveyPage state
  formValues,                 \* SurveyPage: formValues.values
  inviteCalls,                \* calls of addInvite / deleteInvite and what each returned
  inviteRequests              \* requests the invitation client has issued

hookVars == <<isLoading, error, reloadCounter, messages>>
pageVars == <<composingMessage, firstScroll, autoScroll, lastAutoScrolledMessageId,
              isSendingMessage>>
scrollVars == <<firstScroll, autoScroll, lastAutoScrolledMessageId, dist, scrollPending,
                autoScrolls, disabledScrolls, firstScrolls>>
surveyVars == <<qnum, privacyCheck, formValues>>
inviteVars == <<inviteCalls, inviteRequests>>
chatVars == <<mounted, chatId, isLoading, error, reloadCounter, messages, requests, serverLog,
              composingMessage, firstScroll, autoScroll, lastAutoScrolledMessageId,
              isSendingMessage, posts, dist, scrollPending, redirected, autoScrolls,
              disabledScrolls, firstScrolls, everCommitted, lastDone, rejectedSend,
              sendFailed>>
vars == <<mounted, chatId, isLoading, error, reloadCounter, messages, requests, serverLog,
          composingMessage, firstScroll, autoScroll, lastAutoScrolledMessageId,
          isSendingMessage, posts, dist, scrollPending, redirected, autoScrolls,
          disabledScrolls, firstScrolls, everCommitted, lastDone, rejectedSend,
          sendFailed, qnum, privacyCheck, formValues, inviteCalls, inviteRequests>>

\* ---- pure helpers ---------------------------------------------------------
Last(s) == s[Len(s)]

RemoveAt(s, i) == SubSeq(s, 1, i - 1) \o SubSeq(s, i + 1, Len(s))

IsSpace(ch) == ch = " "

RECURSIVE TrimStart(_)
TrimStart(s) == IF s # <<>> /\ IsSpace(Head(s)) THEN TrimStart(Tail(s)) ELSE s

RECURSIVE TrimEnd(_)
TrimEnd(s) == IF s # <<>> /\ IsSpace(Last(s)) THEN TrimEnd(SubSeq(s, 1, Len(s) - 1)) ELSE s

\* String.prototype.trim
Trim(s) == TrimEnd(TrimStart(s))

\* ---- the server -----------------------------------------------------------
AllMessages == [i \in 1..Len(serverLog) |-> [id |-> i, chat |-> serverLog[i]]]

\* GET chats/{c}/messages?sinceId={since}: ascending ids, all > since
Response(c, since) == SelectSeq(AllMessages, LAMBDA m : m.chat = c /\ m.id > since)

\* ---- useMessages ----------------------------------------------------------
SinceIdZero(msgs) == 0

\* go(): the cursor computed from the messages the effect closure holds
SinceId(msgs) == IF msgs # NullMessages /\ Len(msgs) > 0 THEN Last(msgs).id ELSE 0

CancelNone(reqs) == reqs

\* cleanup of the fetch effect: canceled = true for the run it belongs to.  A
\* canceled run never reads its response or the messages of its closure again
\* (it returns at `if (canceled) return`, its catch uses only e), so its record
\* drops the chat it asked for and the messages it held.
Cancel(reqs) ==
  [i \in 1..Len(reqs) |->
     [reqs[i] EXCEPT !.canceled = TRUE, !.chat = Null, !.messages = NullMessages]]

ShouldAppendNonEmpty(closure, m) == Len(m) > 0

\* go(): if (!messages || m.length)
ShouldAppend(closure, m) == closure = NullMessages \/ Len(m) > 0

\* setMessages((oldM) => (oldM ? oldM.concat(m) : m))
Concat(oldM, m) == IF oldM # NullMessages THEN oldM \o m ELSE m

CatchErrorDropped(e) == Null

\* go(): catch (e) { setError(e) }
CatchError(e) == e

\* the fetch effect for the dependencies [chatId, reloadCounter]: cleanup of
\* the previous run, then (if chatId) go() up to its await
FetchEffect(c) ==
  IF c = NoChat
  THEN /\ requests' = Cancel(requests)
       /\ UNCHANGED <<isLoading, error>>
  ELSE /\ Len(requests) < MaxInflight
       /\ requests' = Append(Cancel(requests),
                             [chat |-> c, messages |-> messages, canceled |-> FALSE])
       /\ isLoading' = TRUE
       /\ error' = Null

\* ---- ChatPage -------------------------------------------------------------
LastMessageId(msgs) == IF msgs # NullMessages /\ Len(msgs) > 0 THEN Last(msgs).id ELSE 0

\* first-load effect: the three early returns
FirstScrollFires(fs, msgs, loading) == fs /\ msgs # NullMessages /\ ~loading

AutoScrollFiresAlways(as, lastId, lastScrolled) == lastId # lastScrolled

\* auto-scroll effect: the early returns
AutoScrollFires(as, lastId, lastScrolled) == as /\ lastId # lastScrolled

\* scroll-position effect: setAutoScroll(maxScrollTop - scrollEl.scrollTop < 64)
NearBottom(d) == d < AutoScrollThreshold

\* The first-load effect and the auto-scroll effect, run after a render whose
\* state is (msgs, loading, as) over a document at distance d from the bottom.
PageEffects(msgs, loading, as, d, sp) ==
  LET doFirst == FirstScrollFires(firstScroll, msgs, loading)
      lastId == LastMessageId(msgs)
      doAuto == AutoScrollFires(as, lastId, lastAutoScrolledMessageId)
      scrolled == doFirst \/ doAuto
  IN /\ firstScroll' = (firstScroll /\ ~doFirst)
     /\ firstScrolls' = IF doFirst
                        THEN [firstScrolls EXCEPT ![chatId] = @ + 1]
                        ELSE firstScrolls
     /\ lastAutoScrolledMessageId' = IF doAuto THEN lastId ELSE lastAutoScrolledMessageId
     /\ autoScrolls' = IF doAuto
                       THEN [autoScrolls EXCEPT ![lastId] = @ + 1]
                       ELSE autoScrolls
     /\ disabledScrolls' = disabledScrolls + (IF doAuto /\ ~as THEN 1 ELSE 0)
     /\ autoScroll' = as
     /\ dist' = IF scrolled THEN 0 ELSE d
     /\ scrollPending' = (sp \/ (scrolled /\ d # 0))

\* 401 effect: error instanceof HTTPError && error.response.status === 401
Is401(e) == e = "HTTPError401"

SendGuardOff(sending) == FALSE

\* send(): if (isSendingMessage) return
SendGuard(sending) == sending

\* handleKeyDown: the condition under which it calls send()
KeySubmits(isComposing, key, draft) ==
  ~isComposing /\ key = "Enter" /\ Trim(draft) # <<>>

\* ---- invitation client ---------------------------------------------------
Names == {"n1", "n2"}
Places == {7}
SpTypes == {3}
DateTimes == {1700}
Others == {"note"}
InviteIds == {1, 2}
Pending == "pending"            \* a request not yet answered, a call not yet settled
Undefined == "undefined"        \* what an async function without return resolves with

\* addInvite: client.post("invite/invitation", { json: { Name, Place, sp_type, DateTime, Other } })
AddInviteRequest(Name, Place, sp_type, DateTime, Other) ==
  [method |-> "POST",
   url |-> "invite/invitation",
   json |-> [Name |-> Name, Place |-> Place, sp_type |-> sp_type,
             DateTime |-> DateTime, Other |-> Other]]

\* deleteInvite: client.delete("invite/invitation/" + i_id)
DeleteInviteRequest(i_id) ==
  [method |-> "DELETE", url |-> "invite/invitation/" \o ToString(i_id)]

SettleSwallowed(response) == Undefined

\* `await client...` as the last statement of an async function: the call
\* resolves with undefined when the request resolves and rejects with the
\* request's own failure when it rejects
Settle(response) == IF response \in Errors THEN response ELSE Undefined

\* ---- SurveyPage -----------------------------------------------------------
LastQnum == 6                   \* if (qnum < 6) setQnum(qnum + 1)
PhoneLength == 10               \* f.phone.length !== 10
MinHeight == 30                 \* f.height < 30
MinWeight == 15                 \* f.weight < 15
HoursPerWeek == 168             \* f.avgHours >= 168
BlankHours == -1                \* the value '' of avgHours (the input allows no negative)
Hole == "empty"                 \* an index of the level array that was never set

Digits == {"0", "1", "2", "3", "4", "5", "6", "7", "8", "9"}
Texts == {<<>>, <<" ">>, <<"a">>}
Nicknames == {<<>>, <<"a">>}
Genders == {<<>>, <<"M">>}
Phones ==
  { <<>>, <<" ">>,
    <<"0", "9", "1", "2", "3", "4", "5", "6", "7", "8">>,
    <<"0", "9", "1", "2", "3", "4", "5", "6", "7">>,
    <<"0", "8", "1", "2", "3", "4", "5", "6", "7", "8">>,
    <<"0", "9", "a", "1", "2", "3", "4", "5", "6", "7">>,
    <<"0", "9", ".", "1", "2", "3", "4", "5", "6", "7">>,
    <<"0", "9", "e", "1", "2", "3", "4", "5", "6", "7">> }
Heights == {29, 30, 160}
Weights == {14, 15, 50}
Interests == {<<>>, <<"1">>, <<"1", "2">>}
Hours == {BlankHours, 10, 167, 168, 200}
RegularTimes == {<<>>, <<"1">>}
Levels == {"3", "4"}

\* useForm: initialValues (birthday, which no check reads, left out)
InitialValues ==
  [name |-> <<>>, phone |-> <<>>, nickname |-> <<>>, gender |-> <<>>,
   height |-> 160, weight |-> 50, interests |-> <<>>, avgHours |-> 10,
   regularTime |-> <<>>, level |-> <<>>]

\* the step whose page renders the input of a field
FieldStep(field) ==
  CASE field \in {"name", "phone", "nickname", "gender"} -> 1
    [] field \in {"height", "weight"} -> 2
    [] field \in {"interests", "avgHours", "regularTime"} -> 3

\* the values the input of a field can hand to the form
FieldValues(field) ==
  CASE field = "name" -> Texts
    [] field = "phone" -> Phones
    [] field = "nickname" -> Nicknames
    [] field = "gender" -> Genders
    [] field = "height" -> Heights
    [] field = "weight" -> Weights
    [] field = "interests" -> Interests
    [] field = "avgHours" -> Hours
    [] field = "regularTime" -> RegularTimes

Fields ==
  {"name", "phone", "nickname", "gender", "height", "weight", "interests", "avgHours",
   "regularTime"}

AllDigits(s) == \A i \in 1..Len(s) : s[i] \in Digits

\* ExponentPart of a numeric string, or nothing
IsExponentPart(s) ==
  \/ s = <<>>
  \/ /\ Len(s) >= 2
     /\ s[1] \in {"e", "E"}
     /\ LET r == IF s[2] \in {"+", "-"} THEN SubSeq(s, 3, Len(s)) ELSE Tail(s)
        IN r # <<>> /\ AllDigits(r)

\* StrUnsignedDecimalLiteral: digits [. digits] [exponent]  or  . digits [exponent]
IsUnsignedDecimal(s) ==
  \E i \in 0..Len(s) :
    /\ AllDigits(SubSeq(s, 1, i))
    /\ LET rest == SubSeq(s, i + 1, Len(s))
       IN \/ i >= 1 /\ IsExponentPart(rest)
          \/ /\ rest # <<>>
             /\ rest[1] = "."
             /\ \E j \in 0..(Len(rest) - 1) :
                  /\ AllDigits(SubSeq(rest, 2, j + 1))
                  /\ (i >= 1 \/ j >= 1)
                  /\ IsExponentPart(SubSeq(rest, j + 2, Len(rest)))

\* 0x.., 0o.., 0b.. literals
IsNonDecimalLiteral(s) ==
  /\ Len(s) >= 3
  /\ s[1] = "0"
  /\ LET body == SubSeq(s, 3, Len(s))
     IN \/ s[2] \in {"x", "X"} /\
             \A i \in 1..Len(body) :
               body[i] \in Digits \cup {"a", "b", "c", "d", "e", "f",
                                        "A", "B", "C", "D", "E", "F"}
        \/ s[2] \in {"o", "O"} /\
             \A i \in 1..Len(body) : body[i] \in {"0", "1", "2", "3", "4", "5", "6", "7"}
        \/ s[2] \in {"b", "B"} /\ \A i \in 1..Len(body) : body[i] \in {"0", "1"}

\* isNaN(Number(s)): Number(s) trims s and is NaN unless what is left is empty
\* or a numeric literal
IsNaNNumber(s) ==
  LET t == Trim(s)
      u == IF t # <<>> /\ t[1] \in {"+", "-"} THEN Tail(t) ELSE t
  IN ~ \/ t = <<>>
       \/ IsNonDecimalLiteral(t)
       \/ u = <<"I", "n", "f", "i", "n", "i", "t", "y">>
       \/ IsUnsignedDecimal(u)

\* handleNextQ case 1: errorMessage, as the list of the fields found blank
Step1ErrorMessage(f) ==
  (IF Trim(f.name) = <<>> THEN <<"name">> ELSE <<>>)
  \o (IF Trim(f.phone) = <<>> THEN <<"phone">> ELSE <<>>)
  \o (IF Trim(f.nickname) = <<>> THEN <<"nickname">> ELSE <<>>)
  \o (IF Trim(f.gender) = <<>> THEN <<"gender">> ELSE <<>>)

\* handleNextQ case 1: the else-if over f.phone
PhoneRejected(phone) ==
  \/ Len(phone) # PhoneLength
  \/ IsNaNNumber(phone)
  \/ phone[1] # "0"
  \/ phone[2] # "9"

\* handleNextQ case 3: errorMessage, as the list of the fields found blank
Step3ErrorMessage(f) ==
  (IF Len(f.interests) = 0 THEN <<"interests">> ELSE <<>>)
  \o (IF f.avgHours = BlankHours THEN <<"avgHours">> ELSE <<>>)
  \o (IF Len(f.regularTime) = 0 THEN <<"regularTime">> ELSE <<>>)

HoursRejectedAbove(avgHours) == avgHours > HoursPerWeek

\* handleNextQ case 3: else if (f.avgHours >= 168)
HoursRejected(avgHours) == avgHours >= HoursPerWeek

FilterTrueAll(level) == level

\* f.level.filter(() => { return true }): the indices that were set, holes skipped
FilterTrue(level) == SelectSeq(level, LAMBDA x : x # Hole)

\* setFieldValue('level.' + index, v): assignment to an array index, which
\* leaves holes below an index beyond the length
SetIndex(level, index, v) ==
  [i \in 1..(IF index + 1 > Len(level) THEN index + 1 ELSE Len(level)) |->
     IF i = index + 1 THEN v
     ELSE IF i <= Len(level) THEN level[i] ELSE Hole]

\* handleNextQ: TRUE iff the switch is left without an early return
Validates(q, privacy, f) ==
  CASE q = 0 -> privacy
    [] q = 1 -> Step1ErrorMessage(f) = <<>> /\ ~PhoneRejected(f.phone)
    [] q = 2 -> ~(f.height < MinHeight \/ f.weight < MinWeight)
    [] q = 3 -> Step3ErrorMessage(f) = <<>> /\ ~HoursRejected(f.avgHours)
    [] q = 4 -> Len(f.interests) = Len(FilterTrue(f.level))
    [] OTHER -> TRUE

NextQnumUncapped(q, privacy, f) == IF Validates(q, privacy, f) THEN q + 1 ELSE q

\* handleNextQ: the value of qnum after the call
NextQnum(q, privacy, f) ==
  IF Validates(q, privacy, f) /\ q < LastQnum THEN q + 1 ELSE q

\* handleNextQ: the form values after the call (case 3 resets level)
NextValues(q, privacy, f) ==
  IF q = 3 /\ Validates(q, privacy, f) THEN [f EXCEPT !.level = <<>>] ELSE f

\* ---- initial state: after the first render and its effects ---------------
Init ==
  /\ mounted = TRUE
  /\ chatId = NoChat
  /\ isLoading = TRUE
  /\ error = Null
  /\ reloadCounter = 0
  /\ messages = NullMessages
  /\ requests = <<>>
  /\ serverLog = <<>>
  /\ composingMessage = <<>>
  /\ firstScroll = TRUE
  /\ autoScroll = TRUE
  /\ lastAutoScrolledMessageId = 0
  /\ isSendingMessage = FALSE
  /\ posts = <<>>
  /\ dist = 0
  /\ scrollPending = FALSE
  /\ redirected = FALSE
  /\ autoScrolls = [i \in 0..MaxMsgId |-> IF i = 0 THEN 1 ELSE 0]
  /\ disabledScrolls = 0
  /\ firstScrolls = [c \in Chats |-> 0]
  /\ everCommitted = FALSE
  /\ lastDone = "none"
  /\ rejectedSend = FALSE
  /\ sendFailed = FALSE
  /\ qnum = 0
  /\ privacyCheck = FALSE
  /\ formValues = InitialValues
  /\ inviteCalls = <<>>
  /\ inviteRequests = <<>>

\* ---- actions --------------------------------------------------------------

\* the route's chatId changes: the fetch effect re-runs
ChatIdChange(c) ==
  /\ mounted
  /\ c # chatId
  /\ chatId' = c
  /\ FetchEffect(c)
  /\ PageEffects(messages, isLoading', autoScroll, dist, scrollPending)
  /\ UNCHANGED <<mounted, reloadCounter, messages, serverLog, composingMessage,
                 isSendingMessage, posts, redirected, everCommitted, lastDone, rejectedSend, sendFailed,
                 surveyVars, inviteVars>>

TickHaltsOnError ==
  /\ mounted
  /\ ~isLoading
  /\ error = Null
  /\ reloadCounter < MaxReload
  /\ reloadCounter' = reloadCounter + 1
  /\ FetchEffect(chatId)
  /\ PageEffects(messages, isLoading', autoScroll, dist, scrollPending)
  /\ UNCHANGED <<mounted, chatId, messages, serverLog, composingMessage,
                 isSendingMessage, posts, redirected, everCommitted, lastDone, rejectedSend,
                 sendFailed, surveyVars, inviteVars>>

\* the interval callback: setReloadCounter((c) => c + 1); the interval exists
\* only while isLoading is false
Tick ==
  /\ mounted
  /\ ~isLoading
  /\ reloadCounter < MaxReload
  /\ reloadCounter' = reloadCounter + 1
  /\ FetchEffect(chatId)
  /\ PageEffects(messages, isLoading', autoScroll, dist, scrollPending)
  /\ UNCHANGED <<mounted, chatId, messages, serverLog, composingMessage,
                 isSendingMessage, posts, redirected, everCommitted, lastDone, rejectedSend, sendFailed,
                 surveyVars, inviteVars>>

\* a fetch request resolves with the server's messages newer than its cursor
FetchOk(i) ==
  LET r == requests[i]
      m == Response(r.chat, SinceId(r.messages))
  IN /\ requests' = RemoveAt(requests, i)
     /\ lastDone' = "ok"
     /\ IF r.canceled
        THEN UNCHANGED <<hookVars, scrollVars, everCommitted>>
        ELSE /\ messages' = IF ShouldAppend(r.messages, m)
                            THEN Concat(messages, m)
                            ELSE messages
             /\ isLoading' = FALSE
             /\ everCommitted' = TRUE
             /\ \E d \in Dists :
                  /\ IF messages' # messages /\ Len(m) > 0 THEN d >= dist ELSE d = dist
                  /\ PageEffects(messages', FALSE, autoScroll, d, scrollPending)
             /\ UNCHANGED <<error, reloadCounter>>
     /\ UNCHANGED <<mounted, chatId, serverLog, composingMessage, isSendingMessage,
                    posts, redirected, rejectedSend, sendFailed,
                    surveyVars, inviteVars>>

\* a fetch request rejects (network error or non-2xx status)
FetchFail(i, e) ==
  /\ requests' = RemoveAt(requests, i)
  /\ lastDone' = e
  /\ IF mounted
     THEN /\ error' = CatchError(e)
          /\ isLoading' = FALSE
          /\ redirected' = (redirected \/ Is401(error'))
          /\ PageEffects(messages, FALSE, autoScroll, dist, scrollPending)
     ELSE UNCHANGED <<error, isLoading, redirected, scrollVars>>
  /\ UNCHANGED <<mounted, chatId, reloadCounter, messages, serverLog,
                 composingMessage, isSendingMessage, posts, everCommitted,
                 rejectedSend, sendFailed,
                 surveyVars, inviteVars>>

\* the component is torn down: every effect's cleanup runs
Unmount ==
  /\ mounted
  /\ mounted' = FALSE
  /\ requests' = Cancel(requests)
  /\ UNCHANGED <<chatId, hookVars, serverLog, pageVars, posts, dist, scrollPending,
                 redirected, autoScrolls, disabledScrolls, firstScrolls, everCommitted,
                 lastDone, rejectedSend, sendFailed,
                 surveyVars, inviteVars>>

\* another participant's message reaches the server
ServerNewMessage(c) ==
  /\ Len(serverLog) < MaxMsgId
  /\ serverLog' = Append(serverLog, c)
  /\ UNCHANGED <<mounted, chatId, hookVars, requests, pageVars, posts, dist,
                 scrollPending, redirected, autoScrolls, disabledScrolls, firstScrolls,
                 everCommitted, lastDone, rejectedSend, sendFailed,
                 surveyVars, inviteVars>>

\* the user scrolls the window
UserScroll(d) ==
  /\ mounted
  /\ d # dist
  /\ dist' = d
  /\ scrollPending' = TRUE
  /\ UNCHANGED <<mounted, chatId, hookVars, requests, serverLog, pageVars, posts,
                 redirected, autoScrolls, disabledScrolls, firstScrolls, everCommitted,
                 lastDone, rejectedSend, sendFailed,
                 surveyVars, inviteVars>>

\* the scroll event: useWindowScroll updates pos, the scroll-position effect runs
ScrollEvent ==
  /\ mounted
  /\ scrollPending
  /\ PageEffects(messages, isLoading, NearBottom(dist), dist, FALSE)
  /\ UNCHANGED <<mounted, chatId, hookVars, requests, serverLog, composingMessage,
                 isSendingMessage, posts, redirected, everCommitted, lastDone, rejectedSend, sendFailed,
                 surveyVars, inviteVars>>

\* onInput of the message input
SetDraft(d) ==
  /\ mounted
  /\ d # composingMessage
  /\ composingMessage' = d
  /\ UNCHANGED <<mounted, chatId, hookVars, requests, serverLog, firstScroll, autoScroll,
                 lastAutoScrolledMessageId, isSendingMessage, posts, dist, scrollPending,
                 redirected, autoScrolls, disabledScrolls, firstScrolls, everCommitted,
                 lastDone, rejectedSend, sendFailed,
                 surveyVars, inviteVars>>

\* send() up to its await
SendCall ==
  IF SendGuard(isSendingMessage)
  THEN /\ rejectedSend' = TRUE
       /\ UNCHANGED <<isSendingMessage, posts, sendFailed>>
  ELSE /\ Len(posts) < MaxPosts
       /\ isSendingMessage' = TRUE
       /\ posts' = Append(posts, [chat |-> chatId, content |-> composingMessage])
       /\ rejectedSend' = FALSE
       /\ sendFailed' = FALSE

\* onClick of the send button
ClickSend ==
  /\ mounted
  /\ SendCall
  /\ UNCHANGED <<mounted, chatId, hookVars, requests, serverLog, composingMessage,
                 firstScroll, autoScroll, lastAutoScrolledMessageId, dist, scrollPending,
                 redirected, autoScrolls, disabledScrolls, firstScrolls, everCommitted,
                 lastDone, surveyVars, inviteVars>>

\* onKeyDown of the message input
KeyDown(isComposing, key) ==
  /\ mounted
  /\ IF KeySubmits(isComposing, key, composingMessage)
     THEN SendCall
     ELSE UNCHANGED <<isSendingMessage, posts, rejectedSend, sendFailed>>
  /\ UNCHANGED <<mounted, chatId, hookVars, requests, serverLog, composingMessage,
                 firstScroll, autoScroll, lastAutoScrolledMessageId, dist, scrollPending,
                 redirected, autoScrolls, disabledScrolls, firstScrolls, everCommitted,
                 lastDone, surveyVars, inviteVars>>

\* the POST resolves: the server has stored the message
SendOk(i) ==
  LET p == posts[i]
  IN /\ p.chat # NoChat
     /\ Len(serverLog) < MaxMsgId
     /\ serverLog' = Append(serverLog, p.chat)
     /\ posts' = RemoveAt(posts, i)
     /\ rejectedSend' = FALSE
     /\ sendFailed' = FALSE
     /\ IF mounted
        THEN /\ reloadCounter < MaxReload
             /\ reloadCounter' = reloadCounter + 1
             /\ FetchEffect(chatId)
             /\ composingMessage' = <<>>
             /\ isSendingMessage' = FALSE
             /\ PageEffects(messages, isLoading', TRUE, dist, scrollPending)
        ELSE UNCHANGED <<isLoading, error, reloadCounter, requests, composingMessage,
                         isSendingMessage, scrollVars>>
     /\ UNCHANGED <<mounted, chatId, messages, redirected, everCommitted, lastDone,
                    surveyVars, inviteVars>>

SendFailClearsDraft(i) ==
  /\ posts' = RemoveAt(posts, i)
  /\ rejectedSend' = FALSE
  /\ sendFailed' = TRUE
  /\ IF mounted
     THEN isSendingMessage' = FALSE /\ composingMessage' = <<>>
     ELSE UNCHANGED <<isSendingMessage, composingMessage>>
  /\ UNCHANGED <<mounted, chatId, hookVars, requests, serverLog,
                 firstScroll, autoScroll, lastAutoScrolledMessageId, dist, scrollPending,
                 redirected, autoScrolls, disabledScrolls, firstScrolls, everCommitted,
                 lastDone, surveyVars, inviteVars>>

\* the POST rejects
SendFail(i) ==
  /\ posts' = RemoveAt(posts, i)
  /\ rejectedSend' = FALSE
  /\ sendFailed' = TRUE
  /\ IF mounted
     THEN isSendingMessage' = FALSE
     ELSE UNCHANGED isSendingMessage
  /\ UNCHANGED <<mounted, chatId, hookVars, requests, serverLog, composingMessage,
                 firstScroll, autoScroll, lastAutoScrolledMessageId, dist, scrollPending,
                 redirected, autoScrolls, disabledScrolls, firstScrolls, everCommitted,
                 lastDone, surveyVars, inviteVars>>

\* addInvite(Name, Place, sp_type, DateTime, Other) up to its await
AddInvite(Name, Place, sp_type, DateTime, Other) ==
  /\ Len(inviteCalls) < MaxCalls
  /\ inviteCalls' = Append(inviteCalls,
                           [fn |-> "addInvite",
                            args |-> <<Name, Place, sp_type, DateTime, Other>>,
                            result |-> Pending])
  /\ inviteRequests' = Append(inviteRequests,
                              [call |-> Len(inviteCalls) + 1,
                               request |-> AddInviteRequest(Name, Place, sp_type,
                                                            DateTime, Other),
                               response |-> Pending])
  /\ UNCHANGED <<chatVars, surveyVars>>

\* deleteInvite(i_id) up to its await
DeleteInvite(i_id) ==
  /\ Len(inviteCalls) < MaxCalls
  /\ inviteCalls' = Append(inviteCalls,
                           [fn |-> "deleteInvite", args |-> <<i_id>>, result |-> Pending])
  /\ inviteRequests' = Append(inviteRequests,
                              [call |-> Len(inviteCalls) + 1,
                               request |-> DeleteInviteRequest(i_id),
                               response |-> Pending])
  /\ UNCHANGED <<chatVars, surveyVars>>

\* the request at position j is answered with response (2xx or a failure): the
\* awaiting call settles
InviteSettle(j, response) ==
  /\ inviteRequests[j].response = Pending
  /\ inviteRequests' = [inviteRequests EXCEPT ![j].response = response]
  /\ inviteCalls' = [inviteCalls EXCEPT ![inviteRequests[j].call].result = Settle(response)]
  /\ UNCHANGED <<chatVars, surveyVars>>

\* onChange of the privacy checkbox, rendered at step 0
SetPrivacyCheck(checked) ==
  /\ qnum = 0
  /\ checked # privacyCheck
  /\ privacyCheck' = checked
  /\ UNCHANGED <<qnum, formValues, chatVars, inviteVars>>

SetFieldValueAnyStep(field, v) ==
  /\ qnum # 0
  /\ v # formValues[field]
  /\ formValues' = [formValues EXCEPT ![field] = v]
  /\ UNCHANGED <<qnum, privacyCheck, chatVars, inviteVars>>

\* onChange of the input of a field, rendered at the field's step
SetFieldValue(field, v) ==
  /\ qnum = FieldStep(field)
  /\ v # formValues[field]
  /\ formValues' = [formValues EXCEPT ![field] = v]
  /\ UNCHANGED <<qnum, privacyCheck, chatVars, inviteVars>>

\* onChange of the self-rating Select of the interest at index, rendered at step 4
SetLevel(index, v) ==
  /\ qnum = 4
  /\ index < Len(formValues.interests)
  /\ formValues' = [formValues EXCEPT !.level = SetIndex(@, index, v)]
  /\ formValues' # formValues
  /\ UNCHANGED <<qnum, privacyCheck, chatVars, inviteVars>>

\* onClick of the next button
HandleNextQ ==
  /\ qnum' = NextQnum(qnum, privacyCheck, formValues)
  /\ formValues' = NextValues(qnum, privacyCheck, formValues)
  /\ UNCHANGED <<privacyCheck, chatVars, inviteVars>>

\* onClick of the back button, rendered when qnum is not 0
Back ==
  /\ qnum # 0
  /\ qnum' = qnum - 1
  /\ UNCHANGED <<privacyCheck, formValues, chatVars, inviteVars>>

Next ==
  \/ \E c \in Chats : ChatIdChange(c)
  \/ Tick
  \/ \E i \in 1..Len(requests) : FetchOk(i)
  \/ \E i \in 1..Len(requests), e \in Errors : FetchFail(i, e)
  \/ Unmount
  \/ \E c \in Chats : ServerNewMessage(c)
  \/ \E d \in Dists : UserScroll(d)
  \/ ScrollEvent
  \/ \E d \in Drafts : SetDraft(d)
  \/ ClickSend
  \/ \E isComposing \in BOOLEAN, key \in Keys : KeyDown(isComposing, key)
  \/ \E i \in 1..Len(posts) : SendOk(i)
  \/ \E i \in 1..Len(posts) : SendFail(i)
  \/ \E n \in Names, p \in Places, t \in SpTypes, d \in DateTimes, o \in Others :
       AddInvite(n, p, t, d, o)
  \/ \E id \in InviteIds : DeleteInvite(id)
  \/ \E j \in 1..Len(inviteRequests), r \in Errors \cup {"2xx"} : InviteSettle(j, r)
  \/ \E checked \in BOOLEAN : SetPrivacyCheck(checked)
  \/ \E field \in Fields : \E v \in FieldValues(field) : SetFieldValue(field, v)
  \/ \E index \in 0..1, v \in Levels : SetLevel(index, v)
  \/ HandleNextQ
  \/ Back

Spec == Init /\ [][Next]_vars

\* The synchronizer on a page that stays mounted, with its triggers: the route,
\* the timer, the network, the server and the send flow (whose success calls
\* reload()); the user neither scrolls nor types.
NextSync ==
  \/ \E c \in Chats : ChatIdChange(c)
  \/ Tick
  \/ \E i \in 1..Len(requests) : FetchOk(i)
  \/ \E i \in 1..Len(requests), e \in Errors : FetchFail(i, e)
  \/ \E c \in Chats : ServerNewMessage(c)
  \/ ClickSend
  \/ \E i \in 1..Len(posts) : SendOk(i)
  \/ \E i \in 1..Len(posts) : SendFail(i)

SpecSync == Init /\ [][NextSync]_vars

\* The auto-scroll policy on one chat page: message arrivals, user scrolls, sends.
NextScroll ==
  \/ \E c \in Chats : ChatIdChange(c)
  \/ Tick
  \/ \E i \in 1..Len(requests) : FetchOk(i)
  \/ \E c \in Chats : ServerNewMessage(c)
  \/ \E d \in Dists : UserScroll(d)
  \/ ScrollEvent
  \/ ClickSend
  \/ \E i \in 1..Len(posts) : SendOk(i)
  \/ \E i \in 1..Len(posts) : SendFail(i)

SpecScroll == Init /\ [][NextScroll]_vars

\* The send flow: the draft, the Enter key, the send button, the POST.
NextSend ==
  \/ \E c \in Chats : ChatIdChange(c)
  \/ \E i \in 1..Len(requests) : FetchOk(i)
  \/ \E d \in Drafts : SetDraft(d)
  \/ ClickSend
  \/ \E isComposing \in BOOLEAN, key \in Keys : KeyDown(isComposing, key)
  \/ \E i \in 1..Len(posts) : SendOk(i)
  \/ \E i \in 1..Len(posts) : SendFail(i)
  \/ Unmount

SpecSend == Init /\ [][NextSend]_vars

\* Polling on one chat: the route becomes ready once, then the timer, the
\* network and the server.  The interval fires when it is armed and every
\* request is eventually answered.
NextPoll ==
  \/ \E c \in Chats : chatId = NoChat /\ ChatIdChange(c)
  \/ Tick
  \/ \E i \in 1..Len(requests) : FetchOk(i)
  \/ \E i \in 1..Len(requests), e \in Errors : FetchFail(i, e)
  \/ \E c \in Chats : ServerNewMessage(c)

SpecPoll ==
  /\ Init
  /\ [][NextPoll]_vars
  /\ WF_vars(Tick)
  /\ WF_vars(\E i \in 1..Len(requests) : FetchOk(i) \/ \E e \in Errors : FetchFail(i, e))

\* The invitation client: calls and the answers to their requests.
NextInvite ==
  \/ \E n \in Names, p \in Places, t \in SpTypes, d \in DateTimes, o \in Others :
       AddInvite(n, p, t, d, o)
  \/ \E id \in InviteIds : DeleteInvite(id)
  \/ \E j \in 1..Len(inviteRequests), r \in Errors \cup {"2xx"} : InviteSettle(j, r)

SpecInvite == Init /\ [][NextInvite]_vars

\* The survey: field edits on the step shown, next and back.
NextSurvey ==
  \/ \E checked \in BOOLEAN : SetPrivacyCheck(checked)
  \/ \E field \in Fields : \E v \in FieldValues(field) : SetFieldValue(field, v)
  \/ \E index \in 0..1, v \in Levels : SetLevel(index, v)
  \/ HandleNextQ
  \/ Back

SpecSurvey == Init /\ [][NextSurvey]_vars

TypeOK ==
  /\ mounted \in BOOLEAN
  /\ chatId \in Chats \cup {NoChat}
  /\ isLoading \in BOOLEAN
  /\ error \in Errors \cup {Null}
  /\ reloadCounter \in 0..MaxReload
  /\ Len(requests) <= MaxInflight
  /\ Len(serverLog) <= MaxMsgId
  /\ composingMessage \in Drafts
  /\ dist \in Dists

\* ---- steps, recognised by what they change ------------------------------

\* the fetch request at position i completes in this step
Completes(i) ==
  /\ i \in 1..Len(requests)
  /\ Len(requests') = Len(requests) - 1
  /\ requests' = RemoveAt(requests, i)

\* a fetch request that was canceled before completes in this step
StaleCompletion == \E i \in 1..Len(requests) : Completes(i) /\ requests[i].canceled

\* a fetch request rejects in this step
FetchFailure == lastDone' \in Errors /\ \E i \in 1..Len(requests) : Completes(i)

\* the interval callback runs in this step (reload() from send() also resolves a POST)
TimerTick == reloadCounter' = reloadCounter + 1 /\ posts' = posts

\* a POST is issued / resolves successfully / resolves in this step
PostIssued == Len(posts') > Len(posts)
PostSucceeded == Len(posts') < Len(posts) /\ serverLog' # serverLog
PostResolved == Len(posts') < Len(posts)

Ids(msgs) == IF msgs = NullMessages THEN {} ELSE {msgs[i].id : i \in 1..Len(msgs)}

StrictlyAscending(msgs) ==
  msgs # NullMessages =>
    \A i, j \in 1..Len(msgs) : i < j => msgs[i].id < msgs[j].id

\* msgs2 is msgs1 with messages appended whose ids exceed every id of msgs1
IsAppendOfNewer(msgs1, msgs2) ==
  /\ msgs2 # NullMessages
  /\ IF msgs1 = NullMessages
     THEN TRUE
     ELSE /\ Len(msgs2) > Len(msgs1)
          /\ SubSeq(msgs2, 1, Len(msgs1)) = msgs1
          /\ \A j \in (Len(msgs1) + 1)..Len(msgs2) :
               \A x \in Ids(msgs1) : msgs2[j].id > x

\* ---- claims ---------------------------------------------------------------

\* C1: every change of the local message sequence is an append of messages whose
\* ids are greater than every id already held, so the sequence is always strictly
\* ascending by id, without duplicates, and nothing held is removed or reordered.
C1_AppendOnly ==
  /\ [](StrictlyAscending(messages))
  /\ [][messages' # messages => IsAppendOfNewer(messages, messages')]_vars

\* two successive fetches each appended one message
C1_Witness ==
  /\ messages # NullMessages
  /\ Len(messages) = 2
  /\ autoScrolls[1] = 1
  /\ autoScrolls[2] = 1
  /\ reloadCounter >= 1

\* C2: a fetch that was canceled (chat change, reload or teardown while it was in
\* flight) changes, when it completes, none of messages, error, isLoading and
\* causes no scroll.
C2_StaleFetchChangesNothing ==
  [][StaleCompletion =>
       UNCHANGED <<messages, error, isLoading, autoScrolls, firstScrolls, dist>>]_vars

\* C3: the interval callback increments reloadCounter only when no fetch request
\* is in flight.  Stated for the request in charge alone (the one not canceled),
\* which the claim implies: a canceled request still outstanding is not counted.
C3_TickOnlyWhenIdle ==
  [][TimerTick => \A i \in 1..Len(requests) : requests[i].canceled]_vars

\* C4 as claimed: at most one message-fetch request is outstanding at any time.
C4_AtMostOneOutstanding == Len(requests) <= 1

\* C4 as amended: a new cycle may be issued while the previous request is still
\* outstanding, but issuing it cancels the previous cycle, so at most one
\* outstanding request is not canceled, and it is the one issued last.
C4_AtMostOneActive ==
  \A i \in 1..Len(requests) : ~requests[i].canceled => i = Len(requests)

\* a canceled request and the request that replaced it are both outstanding
C4_Witness ==
  /\ Len(requests) = 2
  /\ requests[1].canceled
  /\ ~requests[2].canceled

\* C5: a non-null error implies that the fetch request that completed last failed.
C5_ErrorImpliesLastFetchFailed == error # Null => lastDone \in Errors

\* C6: the first successful fetch, if its response is empty, turns messages from
\* null into the empty sequence and isLoading into false; a later successful
\* fetch with an empty response leaves messages unchanged; messages is null
\* exactly as long as no fetch has been committed.
C6_EmptyResponse ==
  /\ [](messages = NullMessages <=> ~everCommitted)
  /\ [][\A i \in 1..Len(requests) :
          ( /\ Completes(i)
            /\ ~requests[i].canceled
            /\ lastDone' = "ok"
            /\ Response(requests[i].chat, SinceId(requests[i].messages)) = <<>> )
          => IF everCommitted
             THEN messages' = messages
             ELSE messages = NullMessages /\ messages' = <<>> /\ ~isLoading']_vars

\* the first fetch committed an empty response and a later fetch completed after it
C6_Witness ==
  /\ messages = <<>>
  /\ everCommitted
  /\ ~isLoading
  /\ reloadCounter >= 1
  /\ requests = <<>>
  /\ lastDone = "ok"

\* C7: when a fetch fails (the component still mounted), messages is left as it
\* was (for the fetch in charge: as it was when the fetch was issued), error
\* becomes the failure and isLoading becomes false.
C7_FailureKeepsMessages ==
  [][(FetchFailure /\ mounted) =>
       /\ messages' = messages
       /\ error' = lastDone'
       /\ ~isLoading'
       /\ \A i \in 1..Len(requests) :
            (Completes(i) /\ ~requests[i].canceled) => messages' = requests[i].messages]_vars

\* a fetch failed while messages were held
C7_Witness ==
  /\ error \in Errors
  /\ lastDone = error
  /\ ~isLoading
  /\ messages # NullMessages
  /\ Len(messages) >= 1

\* C8: the auto-scroll effect scrolls at most once per newest message id, exactly
\* once for the current newest id while auto-scroll is enabled, and never while
\* auto-scroll is disabled.
C8_ScrollOncePerNewestId ==
  /\ \A id \in DOMAIN autoScrolls : autoScrolls[id] <= 1
  /\ disabledScrolls = 0
  /\ (mounted /\ autoScroll) =>
       /\ lastAutoScrolledMessageId = LastMessageId(messages)
       /\ autoScrolls[LastMessageId(messages)] = 1

\* a message became the newest while auto-scroll was disabled and caused no scroll,
\* after an earlier one had caused one
C8_Witness ==
  /\ ~autoScroll
  /\ LastMessageId(messages) = 2
  /\ autoScrolls[2] = 0
  /\ autoScrolls[1] = 1

\* C9: a POST is issued only for a draft that is non-empty after trimming (send
\* with an empty or whitespace-only draft is a no-op), and a POST that succeeds
\* ends with the draft cleared, auto-scroll enabled and reload() called once.
C9_SendContract ==
  [][/\ PostIssued => Trim(composingMessage) # <<>>
     /\ (PostSucceeded /\ mounted) =>
          /\ composingMessage' = <<>>
          /\ autoScroll'
          /\ reloadCounter' = reloadCounter + 1]_vars

\* C10: at most one POST is outstanding; send() called while one is outstanding
\* issues no request and changes no state; when the POST resolves
\* isSendingMessage is cleared, so that a later send issues a request again.
C10_NoConcurrentSends ==
  /\ [](Len(posts) <= 1)
  /\ [](mounted => (isSendingMessage <=> Len(posts) = 1))
  /\ [](rejectedSend => Len(posts) = 1)
  /\ [][PostIssued => (posts = <<>> /\ ~isSendingMessage)]_vars
  /\ [][(rejectedSend' /\ ~rejectedSend) =>
          UNCHANGED <<mounted, chatId, isLoading, error, reloadCounter, messages,
                      requests, serverLog, composingMessage, firstScroll, autoScroll,
                      lastAutoScrolledMessageId, isSendingMessage, posts, dist,
                      scrollPending, redirected>>]_vars
  /\ [][(PostResolved /\ mounted) => ~isSendingMessage']_vars

\* send() was called and returned at its guard while a POST was outstanding, an
\* earlier POST having succeeded before
C10_Witness ==
  /\ mounted
  /\ rejectedSend
  /\ Len(posts) = 1
  /\ isSendingMessage
  /\ serverLog # <<>>

\* ---- survey -----------------------------------------------------------------

\* C11: qnum stays in 0..6; next yields qnum + 1 when the step validates and
\* qnum is below 6 and yields qnum otherwise; every change of qnum is such a
\* +1 or a -1 taken at a step other than 0.
C11_StepIndexInRange ==
  /\ [](qnum \in 0..6)
  /\ [](NextQnum(qnum, privacyCheck, formValues) =
          IF Validates(qnum, privacyCheck, formValues) /\ qnum < 6 THEN qnum + 1 ELSE qnum)
  /\ [][qnum' # qnum =>
          \/ qnum' = qnum + 1 /\ Validates(qnum, privacyCheck, formValues) /\ qnum < 6
          \/ qnum' = qnum - 1 /\ qnum # 0]_vars

\* the last step was reached
C11_Witness == qnum = 6 /\ privacyCheck /\ formValues.level # <<>>

\* 09 followed by exactly 8 decimal digits
MatchesPhonePattern(s) ==
  /\ Len(s) = 10
  /\ s[1] = "0"
  /\ s[2] = "9"
  /\ \A i \in 3..10 : s[i] \in Digits

NumberOfRatings(level) == Cardinality({i \in 1..Len(level) : level[i] # Hole})

\* C13: at step 4 next advances exactly when the number of self-ratings equals
\* the number of selected interests; interests ["1","2"] with level ["3"] is
\* blocked, with level ["3","4"] it advances.
C13_OneRatingPerInterest ==
  qnum = 4 =>
    LET f == formValues
        n == NextQnum(qnum, privacyCheck, formValues)
    IN /\ n = 5 <=> NumberOfRatings(f.level) = Len(f.interests)
       /\ n \in {4, 5}
       /\ (f.interests = <<"1", "2">> /\ f.level = <<"3">>) => n = 4
       /\ (f.interests = <<"1", "2">> /\ f.level = <<"3", "4">>) => n = 5

\* next advanced from step 4 with two interests rated
C13_Witness ==
  /\ qnum = 5
  /\ formValues.interests = <<"1", "2">>
  /\ formValues.level = <<"3", "4">>

\* C14: at step 3 next stays at 3 when interests is empty, avgHours is blank,
\* regularTime is empty or avgHours is 168 or more, and advances to 4 otherwise;
\* avgHours 200 is rejected, avgHours 10 with the two lists non-empty is accepted.
C14_WeeklyHours ==
  qnum = 3 =>
    LET f == formValues
        n == NextQnum(qnum, privacyCheck, formValues)
        blocked == \/ Len(f.interests) = 0
                   \/ f.avgHours = BlankHours
                   \/ Len(f.regularTime) = 0
                   \/ f.avgHours >= 168
    IN /\ n = IF blocked THEN 3 ELSE 4
       /\ f.avgHours = 200 => n = 3
       /\ (f.avgHours = 10 /\ f.interests # <<>> /\ f.regularTime # <<>>) => n = 4

\* next advanced from step 3 with the largest accepted number of hours
C14_Witness ==
  /\ qnum = 4
  /\ formValues.avgHours = 167
  /\ formValues.interests # <<>>
  /\ formValues.level = <<>>

\* ---- invitation client -------------------------------------------------------

\* the requests issued for the call at position k
RequestsOf(k) == {j \in 1..Len(inviteRequests) : inviteRequests[j].call = k}

\* C15: every call of addInvite / deleteInvite has issued exactly one request,
\* whatever its outcome (no retry): POST invite/invitation with the five fields
\* of the call, or DELETE invite/invitation/{i_id}; the call is pending as long
\* as the request is, returns nothing when the request succeeds and fails with
\* the request's own failure when the request fails.
C15_SingleShot ==
  \A k \in 1..Len(inviteCalls) :
    /\ Cardinality(RequestsOf(k)) = 1
    /\ \A j \in RequestsOf(k) :
         LET c == inviteCalls[k]
             r == inviteRequests[j]
         IN /\ c.fn = "addInvite" =>
                 /\ r.request.method = "POST"
                 /\ r.request.url = "invite/invitation"
                 /\ DOMAIN r.request.json = {"Name", "Place", "sp_type", "DateTime", "Other"}
                 /\ r.request.json.Name = c.args[1]
                 /\ r.request.json.Place = c.args[2]
                 /\ r.request.json.sp_type = c.args[3]
                 /\ r.request.json.DateTime = c.args[4]
                 /\ r.request.json.Other = c.args[5]
            /\ c.fn = "deleteInvite" =>
                 /\ r.request.method = "DELETE"
                 /\ r.request.url = "invite/invitation/" \o ToString(c.args[1])
                 /\ DOMAIN r.request = {"method", "url"}
            /\ c.result = Pending <=> r.response = Pending
            /\ r.response = "2xx" => c.result = Undefined
            /\ r.response \in Errors => c.result = r.response

\* an addInvite call failed with the failure of its request and a deleteInvite
\* call returned
C15_Witness ==
  /\ Len(inviteCalls) = 2
  /\ inviteCalls[1].fn = "addInvite"
  /\ inviteCalls[1].result = "HTTPError500"
  /\ inviteCalls[2].fn = "deleteInvite"
  /\ inviteCalls[2].result = Undefined

\* ---- chat page, continued -----------------------------------------------------

\* C16: a failed fetch does not halt polling: after a fetch has failed the
\* interval callback runs again and issues a request (as long as reloadCounter
\* is below its bound), and once a chat is shown the callback runs as often as
\* the bound allows.
C16_PollingSurvivesFailure ==
  /\ \A k \in 0..(MaxReload - 1) :
       (lastDone \in Errors /\ reloadCounter = k)
         ~> (reloadCounter = k + 1 /\ isLoading /\ requests # <<>>)
  /\ (chatId # NoChat) ~> (reloadCounter = MaxReload)

\* a request issued by the interval callback is in flight after a fetch failed
C16_Witness ==
  /\ lastDone \in Errors
  /\ error = Null
  /\ reloadCounter >= 1
  /\ isLoading
  /\ Len(requests) = 1

\* the scroll event is handled in this step
ScrollPositionChange ==
  /\ scrollPending
  /\ UNCHANGED <<mounted, chatId, hookVars, requests, serverLog, composingMessage,
                 isSendingMessage, posts>>
  /\ (~scrollPending' \/ autoScrolls' # autoScrolls \/ firstScrolls' # firstScrolls)

\* C17: after a scroll-position change autoScroll is enabled exactly when the
\* distance from the bottom is 64 or less and disabled exactly when it exceeds
\* 64; autoScroll becomes enabled only by such a change or by a successful send.
C17_ThresholdInclusive ==
  /\ [][ScrollPositionChange => (autoScroll' <=> dist <= 64)]_vars
  /\ [][(~autoScroll /\ autoScroll') => (ScrollPositionChange \/ PostSucceeded)]_vars

\* C18: for the chat shown, once a fetch has succeeded and left the hook
\* non-loading the first-load scroll has fired exactly once for that chat, and
\* it fires for no chat more than once.
C18_FirstLoadScrollPerChat ==
  /\ \A c \in Chats : firstScrolls[c] <= 1
  /\ (mounted /\ chatId \in Chats /\ ~isLoading /\ error = Null /\ lastDone = "ok")
       => firstScrolls[chatId] = 1

\* C19: when the POST of send() fails, the draft, autoScroll, reloadCounter and
\* the fetch requests are unchanged (no reload), no POST is issued in its place
\* (no retry) and isSendingMessage is false.
C19_SendFailure ==
  [][(PostResolved /\ ~PostSucceeded /\ mounted) =>
       /\ composingMessage' = composingMessage
       /\ autoScroll' = autoScroll
       /\ reloadCounter' = reloadCounter
       /\ requests' = requests
       /\ Len(posts') = Len(posts) - 1
       /\ ~isSendingMessage']_vars

\* the POST of a non-empty draft failed and the draft is still there
C19_Witness ==
  /\ mounted
  /\ sendFailed
  /\ posts = <<>>
  /\ ~isSendingMessage
  /\ composingMessage = <<"a">>

\* C20: the redirect happens exactly when a fetch of the run in charge (the
\* chat currently shown) fails with status 401; no other failure and no failure
\* of a canceled run triggers it.
C20_RedirectOnlyOnCurrent401 ==
  /\ [][(redirected' /\ ~redirected) =>
          \E i \in 1..Len(requests) :
            Completes(i) /\ ~requests[i].canceled /\ lastDone' = "HTTPError401"]_vars
  /\ [][(mounted /\ \E i \in 1..Len(requests) :
            Completes(i) /\ ~requests[i].canceled /\ lastDone' = "HTTPError401")
          => redirected']_vars

\* ---- chat change ------------------------------------------------------------

\* the chat id changes to another chat while the page stays mounted
ChatChanged == mounted /\ chatId' # chatId /\ chatId' \in Chats

\* the cursor the fetch issued last was given
LastIssuedSinceId(reqs) == SinceId(reqs[Len(reqs)].messages)

\* C21: once a fetch for the chat shown has succeeded, messages holds only
\* messages of that chat; and the fetch issued by a change of the chat id uses
\* sinceId 0.
C21_ChatChangeCarriesNothing ==
  /\ []((mounted /\ chatId \in Chats /\ ~isLoading /\ lastDone = "ok"
           /\ messages # NullMessages)
          => \A i \in 1..Len(messages) : messages[i].chat = chatId)
  /\ [][ChatChanged => LastIssuedSinceId(requests') = 0]_vars

\* ---- survey: earlier steps ---------------------------------------------------

\* C22: in every state the checks of the steps already passed hold for the
\* current values: from step 1 on the privacy box is checked; from step 2 on
\* name, nickname, gender and phone are non-blank and the phone check passes;
\* from step 4 on interests and regularTime are non-empty and avgHours is
\* neither blank nor 168 or more; from step 5 on there are as many self-ratings
\* as selected interests.
C22_EarlierStepsStillValid ==
  /\ qnum >= 1 => privacyCheck
  /\ qnum >= 2 => /\ Step1ErrorMessage(formValues) = <<>>
                  /\ ~PhoneRejected(formValues.phone)
  /\ qnum >= 4 => /\ formValues.interests # <<>>
                  /\ formValues.regularTime # <<>>
                  /\ formValues.avgHours # BlankHours
                  /\ formValues.avgHours < HoursPerWeek
  /\ qnum >= 5 => NumberOfRatings(formValues.level) = Len(formValues.interests)

\* every step was passed, the last ones with one interest and its one rating
C22_Witness ==
  /\ qnum = 6
  /\ privacyCheck
  /\ formValues.name = <<"a">>
  /\ formValues.interests = <<"1">>
  /\ formValues.avgHours = 10
  /\ NumberOfRatings(formValues.level) = 1

====
